---- MODULE Spec2Model ----
(***************************************************************************)
(* Model of r.import.gong_lc (src/r.import.gong_lc.py): the tile resolver  *)
(* get_required_tiles(), the download / import / rename-or-patch / legend  *)
(* pipeline of main(), and the atexit handler cleanup().                   *)
(*                                                                         *)
(* Coordinates are degrees held as integers in units of 1/Scale degree, so *)
(* that fractional edges (-3.5) exist in the model.  A tile name           *)
(* "fromglc10v01_<lat>_<lon>.tif" is the tuple <<"fromglc10v01",lat,lon>>. *)
(* A file path os.path.join(dir, tile) is the tuple <<dir, tile>>.         *)
(* A layer "gong_classification_part_<idx>_<pid>" is <<"part",idx,pid>>.   *)
(*                                                                         *)
(* The collaborators that are not code of the repository (wget, the GRASS  *)
(* modules r.import, g.rename, r.patch, r.category, g.remove, the file     *)
(* system) are modelled by their outcomes: each call either succeeds with  *)
(* its documented effect or fails, and where the effect of a failed call   *)
(* on the store or the file system is not determined, both outcomes are    *)
(* kept.  grass.run_command raises on a non-zero exit; grass.fatal exits   *)
(* the interpreter with status 1; registered atexit handlers run when the  *)
(* interpreter ends.  flags["r"] only adds two keyword arguments to the    *)
(* r.import call and decides no control flow; it is not part of the state. *)
(* In cleanup(), g.remove, os.remove and shutil.rmtree succeed on whatever  *)
(* exists; os.remove of a file that is not there raises and is logged.     *)
(*                                                                         *)
(* Spec is one invocation from option parsing to the end of the process;   *)
(* SpecResolver is an invocation up to the return of get_required_tiles(), *)
(* over a wider set of regions with fractional edges.                      *)
(***************************************************************************)
EXTENDS Integers, Sequences, FiniteSets, TLC

\* ------------------------------------------------------------------ sizes
\* tiles are of 2 * 2 degrees size
TileSize == 2
\* coordinate units per degree
Scale == 2
\* resolver runs: latitudes within -ResolverLatSpan .. ResolverLatSpan degrees
ResolverLatSpan == 4
\* resolver runs: longitudes within -ResolverLonSpan .. ResolverLonSpan degrees
ResolverLonSpan == 2
\* pipeline runs: region edges on whole degrees within -PipeSpan .. PipeSpan
PipeSpan == 1
\* memory budgets and free memory, in MB, within 0 .. MaxMem
MaxMem == 2

\* the invocations (also their process ids)
Procs == {1, 2}

\* ------------------------------------------------- get_required_tiles()
\* python's int() of a float: truncation toward zero, units -> whole degrees
IntOf(u) == IF u >= 0 THEN u \div Scale ELSE -((-u) \div Scale)

\* python's float % 2: the result has the sign of the divisor, in [0, 2)
FloatMod(u, d) == u % (d * Scale)

\* (mutation of TileEdge: int(x / 2) * 2, which rounds toward zero)
TileEdgeTruncating(u) ==
    LET d == TileSize * Scale
    IN  TileSize * (IF u >= 0 THEN u \div d ELSE -((-u) \div d))
\* int(float(x) - float(x) % 2)
TileEdge(u) == IntOf(u - FloatMod(u, TileSize))

\* g.region -lg of the active region: the corner coordinates the code reads
RegionDict(r) ==
    [nw_lat |-> r.north, sw_lat |-> r.south, nw_long |-> r.west, ne_long |-> r.east]

n_tile(rd) == TileEdge(rd.nw_lat)
s_tile(rd) == TileEdge(rd.sw_lat)
e_tile(rd) == TileEdge(rd.nw_long)
w_tile(rd) == TileEdge(rd.ne_long)

\* list(range(start, stop, step)) for step > 0
Range(start, stop, step) ==
    LET cnt == IF stop > start THEN (stop - start + step - 1) \div step ELSE 0
    IN  [i \in 1..cnt |-> start + (i - 1) * step]

\* (mutation of required_ns_tiles: range(s_tile, n_tile, 2), the stop not raised)
required_ns_tiles_short(rd) == Range(s_tile(rd), n_tile(rd), TileSize)
required_ns_tiles(rd) == Range(s_tile(rd), n_tile(rd) + 1, TileSize)
required_ew_tiles(rd) == Range(e_tile(rd), w_tile(rd) + 1, TileSize)

\* list(itertools.product(A, B)): the first factor is the outer loop
Product(A, B) ==
    [k \in 1..(Len(A) * Len(B)) |->
        <<A[((k - 1) \div Len(B)) + 1], B[((k - 1) % Len(B)) + 1]>>]

\* "fromglc10v01_{}_{}.tif".format(tile[0], tile[1])
TileName(tile) == <<"fromglc10v01", tile[1], tile[2]>>

GetRequiredTiles(r) ==
    LET rd  == RegionDict(r)
        raw == Product(required_ns_tiles(rd), required_ew_tiles(rd))
    IN  [k \in 1..Len(raw) |-> TileName(raw[k])]

\* ------------------------------------------------------------------ names
\* options["output"]
OutputName == <<"gong_output_map">>
\* options["directory"] when the caller gives one, and when not ("")
UserDir == <<"directory">>
NoDir == <<>>
\* grass.tempdir(): a fresh directory of the calling process
TempDir(p) == <<"tempdir", p>>
\* os.path.join(download_dir, tile)
JoinPath(dir, tile) == <<dir, tile>>
\* "gong_classification_part_{}_{}".format(idx, pid), idx counted from 0
\* (mutation of PartName: the name does not carry the process id)
PartNameNoPid(idx, pid) == <<"gong_classification_part", idx, 0>>

PartName(idx, pid) == <<"gong_classification_part", idx, pid>>
\* str(os.getpid())
Pid(p) == p

SeqRange(q) == {q[i] : i \in DOMAIN q}

\* ------------------------------------------------------------------ state
VARIABLES
    region,        \* the active computational region (units of 1/Scale degree)
    rasters,       \* the raster store: the set of existing layer names
    files,         \* the file system: the set of existing file paths
    dirs,          \* the file system: the set of existing directories
    pc,            \* per invocation: its position in __main__ / main()
    options,       \* per invocation: the parsed options
    download_dir,  \* per invocation: main()'s download_dir
    tiles,         \* per invocation: main()'s tiles
    local_paths,   \* per invocation: main()'s local_paths
    grassnames,    \* per invocation: main()'s grassnames
    rm_files,      \* per invocation: the module's global rm_files
    rm_folders,    \* per invocation: the module's global rm_folders
    rm_rasters,    \* per invocation: the module's global rm_rasters
    handlers,      \* per invocation: the callbacks registered with atexit
    exitStatus,    \* per invocation: "running", or the exit status "0" / "1"
    calls,         \* per invocation: the collaborator calls made so far
    warnings,      \* per invocation: the number of grass.warning calls
    cleanupRuns    \* per invocation: how often cleanup() has been executed

envVars == <<region, rasters, files, dirs>>
mainVars == <<options, download_dir, tiles, local_paths, grassnames>>
registryVars == <<rm_files, rm_folders, rm_rasters>>
vars == <<region, rasters, files, dirs, pc, options, download_dir, tiles,
          local_paths, grassnames, rm_files, rm_folders, rm_rasters, handlers,
          exitStatus, calls, warnings, cleanupRuns>>

\* the pairs (low, high) of a set of coordinates with low < high
Spans(coords) == {c \in coords \X coords : c[1] < c[2]}

\* the regions as GRASS holds them: north > south and east > west
ValidBoxes(lats, lons) ==
    {[north |-> ns[2], south |-> ns[1], east |-> ew[2], west |-> ew[1]] :
        ns \in Spans(lats), ew \in Spans(lons)}

\* every edge a multiple of 1/Scale degree
ResolverRegions ==
    ValidBoxes((-ResolverLatSpan * Scale)..(ResolverLatSpan * Scale),
               (-ResolverLonSpan * Scale)..(ResolverLonSpan * Scale))

\* every edge a whole degree
PipeRegions ==
    ValidBoxes({d * Scale : d \in (-PipeSpan)..PipeSpan},
               {d * Scale : d \in (-PipeSpan)..PipeSpan})

OptionSets ==
    [output : {OutputName}, directory : {NoDir, UserDir}, memory : 1..MaxMem]

\* no directory given, the smallest memory budget
PlainOptions == [output |-> OutputName, directory |-> NoDir, memory |-> 1]

\* the state when the invocations in `launched` start, with the region drawn from
\* `regions` and each launched invocation's options from `opts`
InitWith(launched, regions, opts) ==
    /\ region \in regions
    /\ rasters = {}
    /\ files = {}
    /\ options \in {o \in [Procs -> OptionSets] :
                        \A p \in Procs : IF p \in launched THEN o[p] \in opts
                                                            ELSE o[p] = PlainOptions}
    /\ dirs \in IF \E p \in launched : options[p].directory = UserDir
                THEN {{}, {UserDir}} ELSE {{}}
    /\ pc = [p \in Procs |-> IF p \in launched THEN "start" ELSE "off"]
    /\ download_dir = [p \in Procs |-> NoDir]
    /\ tiles = [p \in Procs |-> <<>>]
    /\ local_paths = [p \in Procs |-> <<>>]
    /\ grassnames = [p \in Procs |-> <<>>]
    /\ rm_files = [p \in Procs |-> <<>>]
    /\ rm_folders = [p \in Procs |-> <<>>]
    /\ rm_rasters = [p \in Procs |-> <<>>]
    /\ handlers = [p \in Procs |-> <<>>]
    /\ exitStatus = [p \in Procs |-> "running"]
    /\ calls = [p \in Procs |-> <<>>]
    /\ warnings = [p \in Procs |-> 0]
    /\ cleanupRuns = [p \in Procs |-> 0]

\* one invocation
Init == InitWith({1}, PipeRegions, OptionSets)

\* one invocation with plain options, the regions of the resolver runs
InitResolver == InitWith({1}, ResolverRegions, {PlainOptions})

\* the regions of the concurrent runs: one tile (north of the equator) or two
PairRegions == ValidBoxes({-Scale, 0, Scale}, {0, Scale})

\* the options of the concurrent runs: either directory choice, one budget
PairOptions == {o \in OptionSets : o.memory = 1}

\* two invocations started in the same session: one region, one raster store,
\* one file system
InitPair == InitWith(Procs, PairRegions, PairOptions)

\* --------------------------------------------------------------- helpers
Call(p, op, arg, ok) ==
    calls' = [calls EXCEPT ![p] = Append(@, [op |-> op, arg |-> arg, ok |-> ok])]

\* an uncaught exception, or grass.fatal: the interpreter ends with status 1
Abort(p) ==
    /\ pc' = [pc EXCEPT ![p] = "atexit"]
    /\ exitStatus' = [exitStatus EXCEPT ![p] = "1"]

\* ------------------------------------------------------------- __main__
\* (mutation of Parser: the handler is never registered)
ParserUnregistered(p) ==
    /\ pc[p] = "start"
    /\ pc' = [pc EXCEPT ![p] = "main"]
    /\ UNCHANGED <<envVars, mainVars, registryVars, handlers, exitStatus, calls,
                   warnings, cleanupRuns>>

\* options, flags = grass.parser(); atexit.register(cleanup)
Parser(p) ==
    /\ pc[p] = "start"
    /\ handlers' = [handlers EXCEPT ![p] = Append(@, "cleanup")]
    /\ pc' = [pc EXCEPT ![p] = "main"]
    /\ UNCHANGED <<envVars, mainVars, registryVars, exitStatus, calls, warnings,
                   cleanupRuns>>

\* --------------------------------------------------------------- main()
\* (mutation of SetupDir: the caller's directory is registered for removal too)
SetupDirRegisterAll(p) ==
    /\ pc[p] = "main"
    /\ LET dir == IF options[p].directory # NoDir THEN options[p].directory
                                                  ELSE TempDir(p)
       IN  /\ download_dir' = [download_dir EXCEPT ![p] = dir]
           /\ dirs' = dirs \cup {dir}
           /\ rm_folders' = [rm_folders EXCEPT ![p] = Append(@, dir)]
    /\ pc' = [pc EXCEPT ![p] = "tiles"]
    /\ UNCHANGED <<region, rasters, files, options, tiles, local_paths, grassnames,
                   rm_files, rm_rasters, handlers, exitStatus, calls, warnings,
                   cleanupRuns>>

\* the choice of download_dir
SetupDir(p) ==
    /\ pc[p] = "main"
    /\ IF options[p].directory # NoDir
       THEN /\ download_dir' = [download_dir EXCEPT ![p] = options[p].directory]
            /\ dirs' = dirs \cup {options[p].directory}
            /\ UNCHANGED rm_folders
       ELSE /\ download_dir' = [download_dir EXCEPT ![p] = TempDir(p)]
            /\ dirs' = dirs \cup {TempDir(p)}
            /\ rm_folders' = [rm_folders EXCEPT ![p] = Append(@, TempDir(p))]
    /\ pc' = [pc EXCEPT ![p] = "tiles"]
    /\ UNCHANGED <<region, rasters, files, options, tiles, local_paths, grassnames,
                   rm_files, rm_rasters, handlers, exitStatus, calls, warnings,
                   cleanupRuns>>

\* os.makedirs(download_dir) raises: the exception is not caught
SetupDirFail(p) ==
    /\ pc[p] = "main"
    /\ options[p].directory # NoDir
    /\ options[p].directory \notin dirs
    /\ Abort(p)
    /\ UNCHANGED <<envVars, mainVars, registryVars, handlers, calls, warnings,
                   cleanupRuns>>

\* tiles = get_required_tiles(); local_paths = []
GetTiles(p) ==
    /\ pc[p] = "tiles"
    /\ tiles' = [tiles EXCEPT ![p] = GetRequiredTiles(region)]
    /\ local_paths' = [local_paths EXCEPT ![p] = <<>>]
    /\ pc' = [pc EXCEPT ![p] = "download"]
    /\ UNCHANGED <<envVars, options, download_dir, grassnames, registryVars,
                   handlers, exitStatus, calls, warnings, cleanupRuns>>

\* the tile the download loop is at: every pass appends to local_paths or exits
NextTile(p) == tiles[p][Len(local_paths[p]) + 1]

\* one pass of the download loop, wget.download() returning
DownloadOk(p) ==
    /\ pc[p] = "download"
    /\ Len(local_paths[p]) < Len(tiles[p])
    /\ LET local_path == JoinPath(download_dir[p], NextTile(p))
       IN  /\ files' = files \cup {local_path}
           /\ local_paths' = [local_paths EXCEPT ![p] = Append(@, local_path)]
           /\ rm_files' = [rm_files EXCEPT ![p] = Append(@, local_path)]
           /\ Call(p, "download", NextTile(p), TRUE)
    /\ UNCHANGED <<region, rasters, dirs, pc, options, download_dir, tiles,
                   grassnames, rm_folders, rm_rasters, handlers, exitStatus,
                   warnings, cleanupRuns>>

\* (mutation of DownloadFail: the error is logged and the loop goes on)
DownloadFailContinue(p, partial) ==
    /\ pc[p] = "download"
    /\ Len(local_paths[p]) < Len(tiles[p])
    /\ LET local_path == JoinPath(download_dir[p], NextTile(p))
       IN  /\ files' = IF partial THEN files \cup {local_path} ELSE files
           /\ local_paths' = [local_paths EXCEPT ![p] = Append(@, local_path)]
           /\ Call(p, "download", NextTile(p), FALSE)
    /\ UNCHANGED <<region, rasters, dirs, pc, options, download_dir, tiles,
                   grassnames, registryVars, handlers, exitStatus, warnings,
                   cleanupRuns>>

\* one pass of the download loop, wget.download() raising: grass.fatal().
\* `partial`: whether the failed download left a file at local_path
DownloadFail(p, partial) ==
    /\ pc[p] = "download"
    /\ Len(local_paths[p]) < Len(tiles[p])
    /\ LET local_path == JoinPath(download_dir[p], NextTile(p))
       IN  /\ files' = IF partial THEN files \cup {local_path} ELSE files
           /\ Call(p, "download", NextTile(p), FALSE)
    /\ Abort(p)
    /\ UNCHANGED <<region, rasters, dirs, mainVars, registryVars, handlers,
                   warnings, cleanupRuns>>

\* (mutation of TestMemoryResult: the budget is not replaced)
TestMemoryResultUnclamped(memory, free_ram) ==
    IF free_ram < memory
    THEN [memory |-> memory, warned |-> 2]
    ELSE [memory |-> memory, warned |-> 0]

\* test_memory(), with free_ram = freeRAM("MB", 100): `warned` counts the
\* grass.warning calls
TestMemoryResult(memory, free_ram) ==
    IF free_ram < memory
    THEN [memory |-> free_ram, warned |-> 2]
    ELSE [memory |-> memory, warned |-> 0]

\* (mutation of TestMemory: the import phase may start before the download
\* loop has ended)
TestMemoryEarly(p) ==
    /\ pc[p] = "download"
    /\ \E free_ram \in 0..MaxMem :
          LET res == TestMemoryResult(options[p].memory, free_ram)
          IN  /\ options' = [options EXCEPT ![p].memory = res.memory]
              /\ warnings' = [warnings EXCEPT ![p] = @ + res.warned]
              /\ Call(p, "test_memory", <<options[p].memory, free_ram>>, TRUE)
    /\ grassnames' = [grassnames EXCEPT ![p] = <<>>]
    /\ pc' = [pc EXCEPT ![p] = "import"]
    /\ UNCHANGED <<envVars, download_dir, tiles, local_paths, registryVars,
                   handlers, exitStatus, cleanupRuns>>

\* after the download loop: grassnames = []; test_memory()
TestMemory(p) ==
    /\ pc[p] = "download"
    /\ Len(local_paths[p]) = Len(tiles[p])
    /\ \E free_ram \in 0..MaxMem :
          LET res == TestMemoryResult(options[p].memory, free_ram)
          IN  /\ options' = [options EXCEPT ![p].memory = res.memory]
              /\ warnings' = [warnings EXCEPT ![p] = @ + res.warned]
              /\ Call(p, "test_memory", <<options[p].memory, free_ram>>, TRUE)
    /\ grassnames' = [grassnames EXCEPT ![p] = <<>>]
    /\ pc' = [pc EXCEPT ![p] = "import"]
    /\ UNCHANGED <<envVars, download_dir, tiles, local_paths, registryVars,
                   handlers, exitStatus, cleanupRuns>>

\* the index and file the import loop is at (enumerate counts from 0)
NextIdx(p) == Len(grassnames[p])
NextFile(p) == local_paths[p][Len(grassnames[p]) + 1]

\* (mutation of ImportOk: the layer is not registered for removal)
ImportOkUnregistered(p) ==
    /\ pc[p] = "import"
    /\ Len(grassnames[p]) < Len(local_paths[p])
    /\ NextFile(p) \in files
    /\ LET outname == PartName(NextIdx(p), Pid(p))
       IN  /\ rasters' = rasters \cup {outname}
           /\ grassnames' = [grassnames EXCEPT ![p] = Append(@, outname)]
           /\ Call(p, "r.import", <<NextFile(p), outname>>, TRUE)
    /\ UNCHANGED <<region, files, dirs, pc, options, download_dir, tiles,
                   local_paths, registryVars, handlers, exitStatus, warnings,
                   cleanupRuns>>

\* one pass of the import loop, r.import succeeding, which takes the file
\* at local_path to be there
ImportOk(p) ==
    /\ pc[p] = "import"
    /\ Len(grassnames[p]) < Len(local_paths[p])
    /\ NextFile(p) \in files
    /\ LET outname == PartName(NextIdx(p), Pid(p))
       IN  /\ rasters' = rasters \cup {outname}
           /\ grassnames' = [grassnames EXCEPT ![p] = Append(@, outname)]
           /\ rm_rasters' = [rm_rasters EXCEPT ![p] = Append(@, outname)]
           /\ Call(p, "r.import", <<NextFile(p), outname>>, TRUE)
    /\ UNCHANGED <<region, files, dirs, pc, options, download_dir, tiles,
                   local_paths, rm_files, rm_folders, handlers, exitStatus,
                   warnings, cleanupRuns>>

\* one pass of the import loop, r.import failing: run_command raises.
\* `partial`: whether the failed import left the layer outname in the store
ImportFail(p, partial) ==
    /\ pc[p] = "import"
    /\ Len(grassnames[p]) < Len(local_paths[p])
    /\ LET outname == PartName(NextIdx(p), Pid(p))
       IN  /\ rasters' = IF partial THEN rasters \cup {outname} ELSE rasters
           /\ Call(p, "r.import", <<NextFile(p), outname>>, FALSE)
    /\ Abort(p)
    /\ UNCHANGED <<region, files, dirs, mainVars, registryVars, handlers,
                   warnings, cleanupRuns>>

\* after the import loop, len(grassnames) == 1: g.rename of the layer to the output
Rename(p, ok) ==
    /\ pc[p] = "import"
    /\ Len(grassnames[p]) = Len(local_paths[p])
    /\ Len(grassnames[p]) = 1
    /\ Call(p, "g.rename", <<grassnames[p][1], options[p].output>>, ok)
    /\ IF ok
       THEN /\ rasters' = (rasters \ {grassnames[p][1]}) \cup {options[p].output}
            /\ pc' = [pc EXCEPT ![p] = "legend"]
            /\ UNCHANGED exitStatus
       ELSE /\ UNCHANGED rasters
            /\ Abort(p)
    /\ UNCHANGED <<region, files, dirs, mainVars, registryVars, handlers,
                   warnings, cleanupRuns>>

\* (mutation of PatchInput: the layers are passed last-imported first)
PatchInputReversed(p) ==
    [i \in 1..Len(grassnames[p]) |-> grassnames[p][Len(grassnames[p]) + 1 - i]]

\* input=grassnames of the r.patch call
PatchInput(p) == grassnames[p]

\* after the import loop, len(grassnames) != 1: r.patch of the layers into the output
Patch(p, ok) ==
    /\ pc[p] = "import"
    /\ Len(grassnames[p]) = Len(local_paths[p])
    /\ Len(grassnames[p]) # 1
    /\ Call(p, "r.patch", <<PatchInput(p), options[p].output>>, ok)
    /\ IF ok
       THEN /\ rasters' = rasters \cup {options[p].output}
            /\ pc' = [pc EXCEPT ![p] = "legend"]
            /\ UNCHANGED exitStatus
       ELSE /\ UNCHANGED rasters
            /\ Abort(p)
    /\ UNCHANGED <<region, files, dirs, mainVars, registryVars, handlers,
                   warnings, cleanupRuns>>

\* category_text of categories_for_discrete_classification(), one rule per line
CategoryText ==
    << <<10, "Cropland">>, <<20, "Forest">>, <<30, "Grassland">>,
       <<40, "Shrubland">>, <<50, "Wetland">>, <<60, "Water">>, <<70, "Tundra">>,
       <<80, "Impervious surface">>, <<90, "Bareland">>, <<100, "Snow/Ice">> >>

\* categories_for_discrete_classification(options["output"]), then the message
\* and return 0.  outcome "ok": r.category applied the rules; "ignored":
\* r.category ended with an error, which cat_proc.wait() does not look at;
\* "raised": starting r.category or writing to its stdin raised
Legend(p, outcome) ==
    /\ pc[p] = "legend"
    /\ outcome \in {"ok", "ignored", "raised"}
    /\ LET cat == [op |-> "r.category",
                   arg |-> <<options[p].output, CategoryText>>,
                   ok |-> (outcome = "ok")]
           msg == [op |-> "message", arg |-> <<"Generated raster map", options[p].output>>,
                   ok |-> TRUE]
       IN  IF outcome = "raised"
           THEN /\ calls' = [calls EXCEPT ![p] = Append(@, cat)]
                /\ Abort(p)
           ELSE /\ calls' = [calls EXCEPT ![p] = Append(Append(@, cat), msg)]
                /\ pc' = [pc EXCEPT ![p] = "atexit"]
                /\ exitStatus' = [exitStatus EXCEPT ![p] = "0"]
    /\ UNCHANGED <<envVars, mainVars, registryVars, handlers, warnings, cleanupRuns>>

\* -------------------------------------------------------------- cleanup()
\* the files inside a directory
FilesIn(fs, folder) == {f \in fs : f[1] = folder}

\* (mutation of RastersAfterCleanup: the output raster is removed as well)
RastersAfterCleanupAll(p) ==
    rasters \ (SeqRange(rm_rasters[p]) \cup {options[p].output})

\* first loop: g.remove of every registered layer that exists
RastersAfterCleanup(p) == rasters \ SeqRange(rm_rasters[p])

\* second and third loop: os.remove of every registered file, shutil.rmtree of
\* every registered directory that exists
FilesAfterCleanup(p) ==
    LET removed == files \ SeqRange(rm_files[p])
    IN  {f \in removed : f[1] \notin (SeqRange(rm_folders[p]) \cap dirs)}

DirsAfterCleanup(p) == dirs \ SeqRange(rm_folders[p])

\* os.remove raising for a registered file that is not there: one warning each
CleanupWarnings(p) ==
    Cardinality({i \in DOMAIN rm_files[p] : rm_files[p][i] \notin files})

\* the interpreter ends: every registered atexit handler runs
AtExit(p) ==
    /\ pc[p] = "atexit"
    /\ pc' = [pc EXCEPT ![p] = "exited"]
    /\ IF handlers[p] # <<>>
       THEN /\ rasters' = RastersAfterCleanup(p)
            /\ files' = FilesAfterCleanup(p)
            /\ dirs' = DirsAfterCleanup(p)
            /\ warnings' = [warnings EXCEPT ![p] = @ + CleanupWarnings(p)]
            /\ cleanupRuns' = [cleanupRuns EXCEPT ![p] = @ + Len(handlers[p])]
       ELSE UNCHANGED <<rasters, files, dirs, warnings, cleanupRuns>>
    /\ UNCHANGED <<region, mainVars, registryVars, handlers, exitStatus, calls>>

\* ------------------------------------------------------- specifications
Next ==
    \E p \in Procs :
        \/ Parser(p)
        \/ SetupDir(p)
        \/ SetupDirFail(p)
        \/ GetTiles(p)
        \/ DownloadOk(p)
        \/ \E partial \in BOOLEAN : DownloadFail(p, partial)
        \/ TestMemory(p)
        \/ ImportOk(p)
        \/ \E partial \in BOOLEAN : ImportFail(p, partial)
        \/ \E ok \in BOOLEAN : Rename(p, ok)
        \/ \E ok \in BOOLEAN : Patch(p, ok)
        \/ \E outcome \in {"ok", "ignored", "raised"} : Legend(p, outcome)
        \/ AtExit(p)

\* one invocation, from option parsing to the end of the process
Spec == Init /\ [][Next]_vars

\* two invocations, their steps interleaved in every way
SpecPair == InitPair /\ [][Next]_vars

\* the resolver on its own: an invocation up to the call of get_required_tiles()
NextResolver ==
    \E p \in Procs :
        \/ Parser(p)
        \/ SetupDir(p)
        \/ GetTiles(p)

SpecResolver == InitResolver /\ [][NextResolver]_vars

\* ------------------------------------------------- the resolver's claims
Abs(u) == IF u >= 0 THEN u ELSE -u

\* the multiples of TileSize degrees around a coordinate
AlignedNear(u) ==
    {m \in (-(Abs(u)) - TileSize)..(Abs(u) + TileSize) : m % TileSize = 0}

\* the greatest multiple of TileSize degrees that is <= the coordinate
GreatestAlignedLeq(u) ==
    CHOOSE m \in AlignedNear(u) : m * Scale <= u /\ u < (m + TileSize) * Scale

\* the point (lat, lon) lies in the closed footprint of the named tile
FootprintCovers(name, lat, lon) ==
    /\ name[2] * Scale <= lat /\ lat <= (name[2] + TileSize) * Scale
    /\ name[3] * Scale <= lon /\ lon <= (name[3] + TileSize) * Scale

\* get_required_tiles() has returned and nothing has been downloaded yet
Resolved(p) == pc[p] = "download" /\ local_paths[p] = <<>>

\* C6: every point of the region lies in the closed 2x2 degree footprint of at
\* least one tile returned by get_required_tiles()
C6_CoverageComplete ==
    \A p \in Procs :
        Resolved(p) =>
            \A lat \in region.south..region.north, lon \in region.west..region.east :
                \E i \in DOMAIN tiles[p] : FootprintCovers(tiles[p][i], lat, lon)

\* C6 witness: a region from -3.5 to 0.5 degrees of latitude over three tile
\* columns has been resolved to nine tiles
C6_Witness ==
    /\ Resolved(1)
    /\ region.south * 2 = -7 * Scale /\ region.north * 2 = Scale
    /\ region.west * 2 = -3 * Scale /\ region.east = 2 * Scale
    /\ Len(tiles[1]) = 9

\* every edge of the region is a multiple of TileSize degrees
Aligned(r) ==
    \A u \in {r.north, r.south, r.east, r.west} : u % (TileSize * Scale) = 0

\* C7 (as claimed): for a region with all four edges on multiples of 2 degrees
\* no returned tile merely touches the region's northern or eastern boundary,
\* and the number of tiles is ((n-s)/2) * ((e-w)/2)
C7_AlignedMinimal ==
    \A p \in Procs :
        (Resolved(p) /\ Aligned(region)) =>
            /\ \A i \in DOMAIN tiles[p] :
                  /\ tiles[p][i][2] * Scale < region.north
                  /\ tiles[p][i][3] * Scale < region.east
            /\ Len(tiles[p]) =
                  ((region.north - region.south) \div (TileSize * Scale))
                * ((region.east - region.west) \div (TileSize * Scale))

\* C8: each of the four edges is aligned to the greatest multiple of 2 that is
\* <= the coordinate (floor, also below zero), and the first and last tile
\* returned are named by the aligned south-west and north-east edges
C8_FloorAlignment ==
    \A p \in Procs :
        Resolved(p) =>
            LET rd == RegionDict(region)
            IN  /\ n_tile(rd) = GreatestAlignedLeq(region.north)
                /\ s_tile(rd) = GreatestAlignedLeq(region.south)
                /\ e_tile(rd) = GreatestAlignedLeq(region.west)
                /\ w_tile(rd) = GreatestAlignedLeq(region.east)
                /\ tiles[p] # <<>>
                /\ tiles[p][1] = TileName(<<GreatestAlignedLeq(region.south),
                                            GreatestAlignedLeq(region.west)>>)
                /\ tiles[p][Len(tiles[p])] =
                       TileName(<<GreatestAlignedLeq(region.north),
                                  GreatestAlignedLeq(region.east)>>)

\* C8 witness: a southern edge at -3.5 gave tile row -4, a western edge at -0.5
\* gave tile column -2, and a northern edge at exactly 2 stayed 2
C8_Witness ==
    /\ Resolved(1)
    /\ region.south * 2 = -7 * Scale /\ region.north = 2 * Scale
    /\ region.west * 2 = -Scale
    /\ tiles[1][1][2] = -4 /\ tiles[1][1][3] = -2
    /\ tiles[1][Len(tiles[1])][2] = 2

\* the region lies wholly inside the closed footprint of the tile at (lat, lon)
InsideFootprint(r, lat, lon) ==
    /\ lat * Scale <= r.south /\ r.north <= (lat + TileSize) * Scale
    /\ lon * Scale <= r.west /\ r.east <= (lon + TileSize) * Scale

\* C9 (as claimed): a region wholly inside the footprint of one tile is resolved
\* to exactly one tile, whose footprint contains the region
C9_SingleTile ==
    \A p \in Procs :
        Resolved(p) =>
            \A lat \in AlignedNear(region.south), lon \in AlignedNear(region.west) :
                InsideFootprint(region, lat, lon) =>
                    /\ Len(tiles[p]) = 1
                    /\ InsideFootprint(region, tiles[p][1][2], tiles[p][1][3])

\* ------------------------------------------------- the pipeline's claims
Ended(p) == pc[p] = "exited"

\* the positions in the call log of the calls of one collaborator
CallsOf(p, op) == {k \in DOMAIN calls[p] : calls[p][k].op = op}

\* the positions of the failed calls of one collaborator
FailedCallsOf(p, op) == {k \in CallsOf(p, op) : ~calls[p][k].ok}

\* C1: when the download of the k-th tile fails, that call is the last call the
\* run makes (no later download, no retry, no import, rename, merge or legend),
\* the k-1 calls before it are the downloads of tiles 1..k-1, and the process
\* is ending or has ended with status 1
C1_DownloadFailureAborts ==
    \A p \in Procs :
        \A k \in FailedCallsOf(p, "download") :
            /\ k = Len(calls[p])
            /\ k <= Len(tiles[p])
            /\ \A j \in 1..k :
                  /\ calls[p][j].op = "download"
                  /\ calls[p][j].arg = tiles[p][j]
                  /\ calls[p][j].ok = (j < k)
            /\ pc[p] \in {"atexit", "exited"}
            /\ exitStatus[p] = "1"

\* C1 witness: the run has ended after the download of the second of four
\* tiles failed
C1_Witness ==
    /\ Ended(1)
    /\ Len(tiles[1]) = 4
    /\ FailedCallsOf(1, "download") = {2}

\* C2 (as claimed): after a run that ended in failure and its cleanup(), neither
\* the output raster nor any intermediate layer of the run is in the store
C2_NoLayersAfterFailure ==
    \A p \in Procs :
        (Ended(p) /\ exitStatus[p] = "1") =>
            /\ options[p].output \notin rasters
            /\ \A idx \in 0..Len(tiles[p]) : PartName(idx, Pid(p)) \notin rasters

\* C3 (as claimed): after a run that ended because the download of tile N
\* failed, no file is at the local path of any of tiles 1..N; and at every
\* moment every downloaded file is in the cleanup registry
C3_NoFilesAfterDownloadFailure ==
    \A p \in Procs :
        /\ SeqRange(local_paths[p]) \subseteq SeqRange(rm_files[p])
        /\ Ended(p) =>
              \A n \in FailedCallsOf(p, "download") :
                  \A i \in 1..n : JoinPath(download_dir[p], tiles[p][i]) \notin files

C5_CleanupExactlyOnce ==
    \A p \in Procs :
        cleanupRuns[p] = (IF Ended(p) THEN 1 ELSE 0)

\* C5 witness: the process has ended with a failure status after a failed
\* rename, and cleanup() has run
C5_Witness ==
    /\ Ended(1)
    /\ exitStatus[1] = "1"
    /\ FailedCallsOf(1, "g.rename") # {}
    /\ cleanupRuns[1] = 1

\* every tile has been imported
AllImported(p) ==
    /\ tiles[p] # <<>>
    /\ Cardinality(CallsOf(p, "r.import")) = Len(tiles[p])
    /\ FailedCallsOf(p, "r.import") = {}

\* C10: once every import has succeeded and main() has moved on, exactly one
\* g.rename or r.patch call has been made; a g.rename only with one layer, from
\* that layer to the output name; an r.patch only with more than one layer, its
\* input being the layers of tiles 1..n in the resolver's order, latitude band
\* outer from south to north and longitude band inner from west to east; and
\* the layer of index idx was imported from the file of the idx-th tile
C10_RenameOrPatch ==
    \A p \in Procs :
        LET renames == CallsOf(p, "g.rename")
            patches == CallsOf(p, "r.patch")
            n == Len(tiles[p])
        IN  /\ (renames \cup patches) # {} => AllImported(p)
            /\ (AllImported(p) /\ pc[p] # "import") =>
                  Cardinality(renames) + Cardinality(patches) = 1
            /\ Cardinality(renames) + Cardinality(patches) <= 1
            /\ \A k \in renames :
                  /\ n = 1
                  /\ calls[p][k].arg = <<PartName(0, Pid(p)), options[p].output>>
            /\ \A k \in patches :
                  /\ n > 1
                  /\ calls[p][k].arg =
                        <<[i \in 1..n |-> PartName(i - 1, Pid(p))], options[p].output>>
            /\ \A i \in DOMAIN tiles[p], j \in DOMAIN tiles[p] :
                  i < j => \/ tiles[p][i][2] < tiles[p][j][2]
                           \/ /\ tiles[p][i][2] = tiles[p][j][2]
                              /\ tiles[p][i][3] < tiles[p][j][3]
            /\ \A k \in CallsOf(p, "r.import") :
                  LET idx == k - n - 2
                  IN  calls[p][k].arg =
                          <<JoinPath(download_dir[p], tiles[p][idx + 1]),
                            PartName(idx, Pid(p))>>

\* C10 witness: four layers have been patched into the output
C10_Witness ==
    /\ pc[1] = "legend"
    /\ Len(tiles[1]) = 4
    /\ \E k \in CallsOf(1, "r.patch") : calls[1][k].ok

\* ------------------------------------------------- the memory budget
\* test_memory() has returned and main() has not ended: the grass.warning
\* calls so far are those of test_memory()
MemoryChecked(p) ==
    /\ pc[p] \in {"import", "legend", "atexit"}
    /\ CallsOf(p, "test_memory") # {}

\* C11 (as claimed): requested <= available leaves the budget unchanged with
\* no warning; requested > available sets the budget to the available amount
\* with exactly one warning; the run is not aborted by test_memory()
C11_ClampWarnsOnce ==
    \A p \in Procs :
        MemoryChecked(p) =>
            \A k \in CallsOf(p, "test_memory") :
                LET requested == calls[p][k].arg[1]
                    available == calls[p][k].arg[2]
                IN  /\ requested <= available =>
                          options[p].memory = requested /\ warnings[p] = 0
                    /\ requested > available =>
                          options[p].memory = available /\ warnings[p] = 1
                    /\ k = Len(calls[p]) =>
                          pc[p] = "import" /\ exitStatus[p] = "running"

\* C11 (amended): as claimed, except that a clamped budget is announced by two
\* grass.warning calls, one for the shortfall and one for the new budget
C11_ClampWarnsTwice ==
    \A p \in Procs :
        MemoryChecked(p) =>
            /\ Cardinality(CallsOf(p, "test_memory")) = 1
            /\ \A k \in CallsOf(p, "test_memory") :
                LET requested == calls[p][k].arg[1]
                    available == calls[p][k].arg[2]
                IN  /\ requested <= available =>
                          options[p].memory = requested /\ warnings[p] = 0
                    /\ requested > available =>
                          options[p].memory = available /\ warnings[p] = 2
                    /\ k = Len(calls[p]) =>
                          pc[p] = "import" /\ exitStatus[p] = "running"

\* C11 witness: a budget of 2 MB was cut to the 1 MB available and the run
\* goes on with the imports
C11_Witness ==
    /\ pc[1] = "import"
    /\ \E k \in CallsOf(1, "test_memory") : calls[1][k].arg = <<2, 1>>
    /\ options[1].memory = 1
    /\ warnings[1] = 2

\* ------------------------------------------------------------ the legend
\* main() has reported "Generated raster map <output>"
Reported(p) == CallsOf(p, "message") # {}

\* C12 (as claimed): when r.category ended with an error the run ends with a
\* failure status: the output is not reported and main() does not return 0
C12_LegendFailureIsFatal ==
    \A p \in Procs :
        FailedCallsOf(p, "r.category") # {} =>
            /\ ~Reported(p)
            /\ exitStatus[p] # "0"
            /\ pc[p] \in {"atexit", "exited"} => exitStatus[p] = "1"

\* the legend the output raster of the run carries: the rules of the r.category
\* call that succeeded, none when there is no such call
LegendOfOutput(p) ==
    IF \E k \in CallsOf(p, "r.category") : calls[p][k].ok
    THEN LET k == CHOOSE k \in CallsOf(p, "r.category") : calls[p][k].ok
         IN  calls[p][k].arg[2]
    ELSE <<>>

\* the fixed legend of the data set
FixedLegend ==
    << <<10, "Cropland">>, <<20, "Forest">>, <<30, "Grassland">>,
       <<40, "Shrubland">>, <<50, "Wetland">>, <<60, "Water">>, <<70, "Tundra">>,
       <<80, "Impervious surface">>, <<90, "Bareland">>, <<100, "Snow/Ice">> >>

\* C13 (as claimed): on every run that ends with status 0, by rename or by
\* patch, the output raster carries exactly the ten fixed rules, and the one
\* r.category call was made after the output was created, on the output name
C13_FixedLegendOnSuccess ==
    \A p \in Procs :
        exitStatus[p] = "0" =>
            /\ LegendOfOutput(p) = FixedLegend
            /\ Cardinality(CallsOf(p, "r.category")) = 1
            /\ \A k \in CallsOf(p, "r.category") :
                  /\ calls[p][k].arg[1] = options[p].output
                  /\ calls[p][k - 1].op \in {"g.rename", "r.patch"}
                  /\ calls[p][k - 1].ok

\* ------------------------------------------- cleanup() with a removal failing
\* the registered artifact whose removal fails, if any: a layer that exists,
\* a file that exists or a directory that exists, by its place in its registry
FaultChoices(p) ==
    {<<"none", 0>>}
    \cup {<<"raster", i>> : i \in {j \in DOMAIN rm_rasters[p] : rm_rasters[p][j] \in rasters}}
    \cup {<<"file", i>> : i \in {j \in DOMAIN rm_files[p] : rm_files[p][j] \in files}}
    \cup {<<"folder", i>> : i \in {j \in DOMAIN rm_folders[p] : rm_folders[p][j] \in dirs}}

\* first loop: find_file, then run_command("g.remove"), which raises when
\* g.remove fails, so that the loop and cleanup() end there
RemoveRasterCalls(p, bad) ==
    LET last == IF bad[1] = "raster" THEN bad[2] ELSE Len(rm_rasters[p])
        all  == [i \in 1..last |->
                    [op |-> "g.remove", arg |-> rm_rasters[p][i],
                     ok |-> ~(bad[1] = "raster" /\ bad[2] = i)]]
    IN  SelectSeq(all, LAMBDA c : c.arg \in rasters)

\* second loop: os.remove inside try / except
RemoveFileCalls(p, bad) ==
    [i \in 1..Len(rm_files[p]) |->
        [op |-> "os.remove", arg |-> rm_files[p][i],
         ok |-> rm_files[p][i] \in files /\ ~(bad[1] = "file" /\ bad[2] = i)]]

\* third loop: os.path.isdir, then shutil.rmtree inside try / except
RemoveFolderCalls(p, bad) ==
    LET all == [i \in 1..Len(rm_folders[p]) |->
                   [op |-> "shutil.rmtree", arg |-> rm_folders[p][i],
                    ok |-> ~(bad[1] = "folder" /\ bad[2] = i)]]
    IN  SelectSeq(all, LAMBDA c : c.arg \in dirs)

\* the calls cleanup() makes
CleanupCalls(p, bad) ==
    IF bad[1] = "raster"
    THEN RemoveRasterCalls(p, bad)
    ELSE RemoveRasterCalls(p, bad) \o RemoveFileCalls(p, bad) \o RemoveFolderCalls(p, bad)

\* what the successful calls of a list removed
Removed(cs, op) == {cs[i].arg : i \in {j \in DOMAIN cs : cs[j].op = op /\ cs[j].ok}}

\* the interpreter ends and cleanup() runs, the removal of `bad` failing.  An
\* exception that leaves an atexit handler is printed; the exit status stays
AtExitFaulty(p, bad) ==
    /\ pc[p] = "atexit"
    /\ handlers[p] # <<>>
    /\ bad \in FaultChoices(p)
    /\ pc' = [pc EXCEPT ![p] = "exited"]
    /\ LET cs == CleanupCalls(p, bad)
           gone == Removed(cs, "shutil.rmtree")
       IN  /\ calls' = [calls EXCEPT ![p] = @ \o cs]
           /\ rasters' = rasters \ Removed(cs, "g.remove")
           /\ files' = {f \in files \ Removed(cs, "os.remove") : f[1] \notin gone}
           /\ dirs' = dirs \ gone
           /\ warnings' = [warnings EXCEPT ![p] = @ + Cardinality(
                 {i \in DOMAIN cs : cs[i].op # "g.remove" /\ ~cs[i].ok})]
    /\ cleanupRuns' = [cleanupRuns EXCEPT ![p] = @ + 1]
    /\ UNCHANGED <<region, mainVars, registryVars, handlers, exitStatus>>

NextFaults ==
    \E p \in Procs :
        \/ Parser(p)
        \/ SetupDir(p)
        \/ SetupDirFail(p)
        \/ GetTiles(p)
        \/ DownloadOk(p)
        \/ \E partial \in BOOLEAN : DownloadFail(p, partial)
        \/ TestMemory(p)
        \/ ImportOk(p)
        \/ \E partial \in BOOLEAN : ImportFail(p, partial)
        \/ \E ok \in BOOLEAN : Rename(p, ok)
        \/ \E ok \in BOOLEAN : Patch(p, ok)
        \/ \E outcome \in {"ok", "ignored", "raised"} : Legend(p, outcome)
        \/ \E bad \in FaultChoices(p) : AtExitFaulty(p, bad)

\* one invocation, at most one removal in cleanup() failing
SpecFaults == Init /\ [][NextFaults]_vars

\* the registered artifacts that are still there
LeftLayers(p) == SeqRange(rm_rasters[p]) \cap rasters
LeftFiles(p) == SeqRange(rm_files[p]) \cap files
LeftFolders(p) == SeqRange(rm_folders[p]) \cap dirs

\* C14 (as claimed): after cleanup() in which the removal of one registered
\* artifact failed, the exit status is the one main() ended with, the failed
\* removal is the only one that failed, and every registered layer, file and
\* directory that is still there is one whose removal was attempted
C14_RemovalFailureNonFatal ==
    \A p \in Procs :
        Ended(p) =>
            /\ exitStatus[p] = (IF Reported(p) THEN "0" ELSE "1")
            /\ \A r \in LeftLayers(p) :
                  \E k \in FailedCallsOf(p, "g.remove") : calls[p][k].arg = r
            /\ \A f \in LeftFiles(p) :
                  \E k \in FailedCallsOf(p, "os.remove") : calls[p][k].arg = f
            /\ \A d \in LeftFolders(p) :
                  \E k \in FailedCallsOf(p, "shutil.rmtree") : calls[p][k].arg = d

StepAt(n, k) ==
    IF k <= n THEN {"download"}
    ELSE IF k = n + 1 THEN {"test_memory"}
    ELSE IF k <= 2 * n + 1 THEN {"r.import"}
    ELSE IF k = 2 * n + 2 THEN {"g.rename", "r.patch"}
    ELSE IF k = 2 * n + 3 THEN {"r.category"}
    ELSE {"message"}

\* C17: the calls of a run are, in this order, the downloads of the tiles in
\* resolver order, one memory check, the imports of the downloaded files in
\* the same order, one rename or merge, and the legend; no step is started
\* before the step before it has succeeded
C17_StepOrder ==
    \A p \in Procs :
        LET n == Len(tiles[p])
        IN  /\ Len(calls[p]) <= 2 * n + 4
            /\ \A k \in DOMAIN calls[p] :
                  /\ calls[p][k].op \in StepAt(n, k)
                  /\ k <= n => calls[p][k].arg = tiles[p][k]
                  /\ (n + 1 < k /\ k <= 2 * n + 1) =>
                        calls[p][k].arg[1] =
                            JoinPath(download_dir[p], tiles[p][k - n - 1])
                  /\ (k < Len(calls[p]) /\ k <= 2 * n + 2) => calls[p][k].ok

\* C17 witness: a run over four tiles has made all its calls, from the first
\* download to the legend
C17_Witness ==
    /\ Len(tiles[1]) = 4
    /\ Len(calls[1]) = 12
    /\ calls[1][11].op = "r.category"

CreatedBy(p) == {calls[p][k].arg[2] : k \in CallsOf(p, "r.import")}

NamesDisjoint ==
    \A p \in Procs : \A q \in Procs \ {p} : CreatedBy(p) \cap CreatedBy(q) = {}

\* the end of a process takes no layer of another run out of the store
CleanupSparesOthers ==
    \A p \in Procs :
        (pc[p] = "atexit" /\ pc'[p] = "exited") =>
            \A q \in Procs \ {p} : (CreatedBy(q) \cap rasters) \subseteq rasters'

\* C16: the intermediate layer names of two concurrent invocations are
\* disjoint, and the cleanup() of one leaves every layer of the other in the
\* store
C16_LayerNamesDisjoint == []NamesDisjoint /\ [][CleanupSparesOthers]_vars

\* C16 witness: invocation 1 has ended after importing and its cleanup() ran,
\* while invocation 2 is in its import loop with an imported layer in the store
C16_Witness ==
    /\ Ended(1)
    /\ rm_rasters[1] # <<>>
    /\ cleanupRuns[1] = 1
    /\ pc[2] = "import"
    /\ grassnames[2] # <<>>
    /\ SeqRange(grassnames[2]) \subseteq rasters

\* the files a run has downloaded and has not imported yet
Pending(p) ==
    {local_paths[p][i] : i \in (Len(grassnames[p]) + 1)..Len(local_paths[p])}

\* C19: while a run is downloading or importing, every file it has downloaded
\* and not yet imported is on disk, whatever another invocation does
C19_PendingFilesKept ==
    \A p \in Procs : pc[p] \in {"download", "import"} => Pending(p) \subseteq files

====
